---- MODULE Spec2Model ----
(***************************************************************************)
(* Model of the sound-driven platformer: the onset detector                *)
(* (AudioProcessor, src/unnamed/part_000) and the React component App      *)
(* (src/src/App.tsx) with its run state machine and per-frame game loop.   *)
(*                                                                         *)
(* Units.  The source computes with double-precision numbers:              *)
(*   - the player's y and vy are kept as the doubles the source computes   *)
(*     (see "Double-precision numbers" below), every sum rounded as        *)
(*     IEEE 754 rounds it;                                                 *)
(*   - the other lengths (canvas, boxes, obstacle positions) are in tenths *)
(*     of a canvas unit (800 -> 8000) and speed multipliers in tenths      *)
(*     (1.5 -> 15); with the speeds of the model every obstacle position   *)
(*     is a whole number of units, which a double holds exactly;           *)
(*   - game time and hover time in ticks of 10 microseconds                *)
(*     (dt / 1000 = 0.01667 s -> 1667, 2 s -> 200000, 120 s -> 12000000);  *)
(*   - animation-frame timestamps in milliseconds;                         *)
(*   - volumes and thresholds are the byte values of the source.           *)
(***************************************************************************)
EXTENDS Integers, Sequences, FiniteSets

VARIABLES
    gameState,          \* useState<GameState>: status, currentLevel, score, soundsDetected, timeLeft
    micEnabled,         \* useState(false)
    threshold,          \* useState(30): the sensitivity slider
    proSpeed,           \* useState(1.5): the pro-mode speed slider (tenths)
    audioProcessor,     \* audioProcessorRef.current and the fields of the AudioProcessor
    player,             \* playerRef.current
    obstacles,          \* obstaclesRef.current
    lastObstacleTime,   \* lastObstacleTime.current
    gameTime,           \* gameTimeRef.current
    soundsCount,        \* soundsCountRef.current
    rafPending,         \* animation-frame requests in flight (requestRef)
    time,               \* the host clock: timestamp handed to the next frame callback
    alertMsg,           \* the modal alert() currently displayed, "" when none
    pendingStarts,      \* calls of AudioProcessor.start() awaiting getUserMedia
    openStreams,        \* capture streams acquired and not yet stopped
    volume,             \* the volume read by the last checkSound
    audioStatus,        \* the value returned by the last checkSound
    lastEdge,           \* the last edge reported by checkSound: "none", "onset", "offset"
    lastRead            \* the last read of the detector by its caller: the method
                        \* called, checkSound or getVolume, and the volume it read

vars == <<gameState, micEnabled, threshold, proSpeed, audioProcessor, player,
          obstacles, lastObstacleTime, gameTime, soundsCount, rafPending, time,
          alertMsg, pendingStarts, openStreams, volume, audioStatus, lastEdge,
          lastRead>>

(***************************************************************************)
(* Bounds of the model.                                                    *)
(***************************************************************************)
\* duration of the bounded levels of Spec, in ticks (4 frames of 1667 ticks)
ShortDuration == 6000
\* duration of the bounded level of SpecRun (168 frames) and of SpecPro (42 frames)
LongDuration == 280000
ProDuration == 70000
\* the bounded levels require 1..MaxRequired sounds
MaxRequired == 2
\* the host clock when the page has been set up, and one display refresh, in ms
StartMs == 1300
FrameMs == 17
\* frames delivered at most in Spec, in SpecRun and in SpecPro
MaxFrames == 4
MaxRunFrames == 165
MaxProFrames == 42
\* frames of a window of a run, in SpecRun and in SpecPro
HoldFrames == 39
ProHoldFrames == 36
\* frames at the start of each window, in SpecRun, SpecPro and SpecBeat, during
\* which the sound and the obstacle draws are free
FreeFrames == 2
\* frames delivered at most in SpecLive
MaxLiveFrames == 8
\* frames of a window of a run, and frames delivered at most, in SpecBeat
BeatHoldFrames == 51
MaxBeatFrames == 110
\* start() calls in flight, and capture streams open, at most
MaxPending == 1
MaxStreams == 1
\* obstacles alive at most
MaxObstacles == 2
\* bins of the magnitude buffer (analyser.frequencyBinCount)
BinCount == 2
\* start() calls in flight, and capture streams open, at most, in SpecDetector
\* and in SpecMic
RacePending == 2
RaceStreams == 2

\* F applied to the value of x: the steps of a computation run in sequence, each
\* on the result of the one before
Then(x, F(_)) == CHOOSE r \in {F(v) : v \in {x}} : TRUE

\* Math.min and Math.max on the integers of the model
Min(a, b) == IF a < b THEN a ELSE b
Max(a, b) == IF a > b THEN a ELSE b

(***************************************************************************)
(* Double-precision numbers.  playerRef.current.y and .vy are IEEE 754     *)
(* binary64 values.  The ones the program computes are multiples of 2^-53  *)
(* of magnitude below 1024; such a value v is the triple <<w, hi, lo>>     *)
(* with v = w + hi / 2^26 + lo / 2^53, where w = floor(v),                 *)
(* 0 <= hi < 2^26 and 0 <= lo < 2^27.                                      *)
(***************************************************************************)
TwoTo26 == 67108864
TwoTo27 == 134217728

\* the triple of w + hi / 2^26 + lo / 2^53 for any integers w, hi, lo
Carry(w, hi, lo) ==
    LET h == hi + (lo \div TwoTo27)
    IN  <<w + (h \div TwoTo26), h % TwoTo26, lo % TwoTo27>>

\* a whole number, and a length of t tenths that is a whole number of halves
Whole(n) == <<n, 0, 0>>
Double(t) == <<t \div 10, ((t % 10) \div 5) * (TwoTo26 \div 2), 0>>
Zero == Whole(0)

\* -a, a < b, Math.min(a, b) and Math.max(a, b)
Minus(a) == Carry(-a[1], -a[2], -a[3])
Less(a, b) ==
    \/ a[1] < b[1]
    \/ a[1] = b[1] /\ a[2] < b[2]
    \/ a[1] = b[1] /\ a[2] = b[2] /\ a[3] < b[3]
Lesser(a, b) == IF Less(a, b) THEN a ELSE b
Greater(a, b) == IF Less(a, b) THEN b ELSE a

\* the spacing, in units of 2^-53, of the doubles from w to below w + 1
RECURSIVE Ulp(_)
Ulp(w) == IF w = 0 THEN 1 ELSE 2 * Ulp(w \div 2)

\* the double nearest to a >= 0, the even one of two equally near
Nearest(a) ==
    LET cut(u) ==
            LET r == a[3] % u
                odd == (a[3] \div u) % 2 = 1
                up == 2 * r > u \/ (2 * r = u /\ odd)
            IN  Carry(a[1], a[2], a[3] - r + (IF up THEN u ELSE 0))
    IN  IF a[1] = 0 THEN a ELSE Then(Ulp(a[1]), cut)
Round(a) == IF a[1] < 0 THEN Then(Then(Minus(a), Nearest), Minus) ELSE Nearest(a)

\* a + b of the source: the exact sum, rounded
Plus(a, b) == Then(Carry(a[1] + b[1], a[2] + b[2], a[3] + b[3]), Round)

(***************************************************************************)
(* Program constants.                                                      *)
(***************************************************************************)
CANVAS_WIDTH == 8000
CANVAS_HEIGHT == 4000
\* 0.6 is the double 5404319552844595 / 2^53
GRAVITY == <<0, 40265318, 53687091>>
JUMP_FORCE == Whole(-12)
GROUND_Y == CANVAS_HEIGHT - 600
PLAYER_SIZE == 400
OBSTACLE_WIDTH == 300
OBSTACLE_HEIGHT == 500
BOX_HEIGHT == 400
BOX_OFFSET == 1000
PLAYER_X == 500
DT == 1667
HOVER_BUDGET == 200000
HOVER_DRIFT == Whole(1)
SPEED_SCALE == 4
BEAT_MS == 60000
DEFAULT_THRESHOLD == 30
DEFAULT_PRO_SPEED == 15
DEFAULT_TIME_LEFT == 12000000

(***************************************************************************)
(* constants.ts: the level table.  bpm, speedMultiplier and isPro are the  *)
(* table's; duration and requiredSounds are parameters, so that bounded    *)
(* runs reach the timeout.                                                 *)
(***************************************************************************)
LevelIds == {1, 2, 3, 4}
LevelBpm(id) == CASE id = 1 -> 50 [] id = 2 -> 60 [] OTHER -> 70
LevelSpeed(id) == CASE id = 1 -> 10 [] id = 2 -> 12 [] OTHER -> 15
Level(id, duration, requiredSounds) ==
    [id |-> id, bpm |-> LevelBpm(id), duration |-> duration,
     requiredSounds |-> requiredSounds, speedMultiplier |-> LevelSpeed(id),
     isPro |-> (id = 4)]
\* currentLevel: null
NullLevel == [id |-> 0, bpm |-> 0, duration |-> 0, requiredSounds |-> 0,
              speedMultiplier |-> 0, isPro |-> FALSE]
LEVELS(ids, durations) ==
    {Level(id, d, r) : id \in ids, d \in durations, r \in 1..MaxRequired}

ObstacleTypes == {"pipe", "box", "plant"}

(***************************************************************************)
(* AudioProcessor (src/unnamed/part_000)                                   *)
(***************************************************************************)
\* the fields of a new AudioProcessor; exists = FALSE models the null ref
NewAudioProcessor(exists) ==
    [exists |-> exists, threshold |-> DEFAULT_THRESHOLD, isSounding |-> FALSE,
     analyser |-> FALSE, stream |-> "null", audioContext |-> "null",
     dataArray |-> <<>>]

\* line 23: new Uint8Array(bufferLength)
NewDataArray == [i \in 1..BinCount |-> 0]

\* line 46: the guard of getVolume()
canRead(ap) == ap.analyser /\ ap.dataArray # <<>>

\* lines 46-47: past the guard the analyser writes its magnitudes into
\* this.dataArray
getByteFrequencyData(ap, data) ==
    IF canRead(ap) THEN [ap EXCEPT !.dataArray = data] ELSE ap

RECURSIVE PeakOf(_)
PeakOf(data) ==
    IF data = <<>> THEN 0
    ELSE LET rest == PeakOf(Tail(data)) IN
         IF Head(data) > rest THEN Head(data) ELSE rest

\* getVolume(): the peak of the magnitude buffer, 0 without an analyser or a
\* buffer
getVolumeLastBin(ap, data) == IF ~canRead(ap) THEN 0 ELSE data[Len(data)]
getVolume(ap, data) == IF ~canRead(ap) THEN 0 ELSE PeakOf(data)

\* a read of the detector by its caller, and no read yet
Read(method, v) == [method |-> method, volume |-> v]
NoRead == Read("none", 0)

\* checkSound(): the returned record, for the volume v read by the call
checkSoundOffsetCopied(ap, v) ==
    LET nowSounding == v > ap.threshold
        onset == nowSounding /\ ~ap.isSounding
    IN  [onset |-> onset, offset |-> nowSounding /\ ~ap.isSounding,
         isSounding |-> nowSounding]
checkSoundLevel(ap, v) ==
    LET nowSounding == v > ap.threshold
    IN  [onset |-> nowSounding, offset |-> ~nowSounding /\ ap.isSounding,
         isSounding |-> nowSounding]
checkSound(ap, v) ==
    LET nowSounding == v > ap.threshold
        onset == nowSounding /\ ~ap.isSounding
        offset == ~onset /\ (~nowSounding /\ ap.isSounding)
    IN  [onset |-> onset, offset |-> offset, isSounding |-> nowSounding]

\* checkSound(): the detector after the call
afterCheckSound(ap, v) == [ap EXCEPT !.isSounding = (v > ap.threshold)]

\* setThreshold(value)
setThresholdDropped(ap, value) == ap
setThreshold(ap, value) == [ap EXCEPT !.threshold = value]

\* stop(): stops the tracks of this.stream, closes this.audioContext
stopProcessorUnguarded(ap) ==
    [ap EXCEPT !.stream = "stopped", !.audioContext = "closed"]
stopProcessor(ap) ==
    [ap EXCEPT !.stream = IF @ = "live" THEN "stopped" ELSE @,
               !.audioContext = IF @ = "null" THEN @ ELSE "closed"]

(***************************************************************************)
(* App.tsx: the pieces of gameLoop                                         *)
(***************************************************************************)
\* line 107: newTimeLeft
newTimeLeftFrozen(level, elapsed) == level.duration
newTimeLeft(level, elapsed) == Max(0, level.duration - elapsed)

\* line 109: the status a run ends with when its time is up
timeoutStatusStrict(level, count) ==
    IF count > level.requiredSounds THEN "win" ELSE "gameover"
timeoutStatus(level, count) ==
    IF count >= level.requiredSounds THEN "win" ELSE "gameover"

\* lines 122-126: the jump on an onset
onsetJumpKeepsTimer(p) ==
    [y |-> p.y, vy |-> JUMP_FORCE, isJumping |-> TRUE,
     hoverTime |-> IF "hoverTime" \in DOMAIN p THEN p.hoverTime ELSE 0]
onsetJump(p) ==
    [y |-> p.y, vy |-> JUMP_FORCE, isJumping |-> TRUE, hoverTime |-> 0]

\* playerRef.current.hoverTime < 2; false when the field is undefined
hoverLeft(p) == "hoverTime" \in DOMAIN p /\ p.hoverTime < HOVER_BUDGET

\* lines 132-143: jump + hover physics
hoverWithoutBudget(p, isSounding) ==
    IF isSounding /\ p.isJumping
    THEN [p EXCEPT !.vy = Lesser(@, HOVER_DRIFT), !.hoverTime = @ + DT]
    ELSE [p EXCEPT !.vy = Plus(@, GRAVITY)]
hoverPhysics(p, isSounding) ==
    IF isSounding /\ p.isJumping
    THEN IF hoverLeft(p)
         THEN [p EXCEPT !.vy = Lesser(@, HOVER_DRIFT), !.hoverTime = @ + DT]
         ELSE [p EXCEPT !.vy = Plus(@, GRAVITY)]
    ELSE [p EXCEPT !.vy = Plus(@, GRAVITY)]

\* line 145
integrate(p) == [p EXCEPT !.y = Plus(@, p.vy)]

\* lines 148-157: boundary checks, ground then ceiling
groundClampKeepsJumping(p) ==
    IF Less(Double(GROUND_Y - PLAYER_SIZE), p.y)
    THEN [p EXCEPT !.y = Double(GROUND_Y - PLAYER_SIZE), !.vy = Zero]
    ELSE p
groundClamp(p) ==
    IF Less(Double(GROUND_Y - PLAYER_SIZE), p.y)
    THEN [p EXCEPT !.y = Double(GROUND_Y - PLAYER_SIZE), !.vy = Zero,
                   !.isJumping = FALSE]
    ELSE p
ceilingClampLands(p) ==
    IF Less(p.y, Zero) THEN [p EXCEPT !.y = Zero, !.vy = Zero, !.isJumping = FALSE]
    ELSE p
ceilingClamp(p) ==
    IF Less(p.y, Zero) THEN [p EXCEPT !.y = Zero, !.vy = Zero] ELSE p
boundaryChecks(p) == Then(groundClamp(p), ceilingClamp)

\* lines 160-164: time - lastObstacleTime.current > 60000 / level.bpm
spawnDue(level, t, last) == (t - last) * level.bpm > BEAT_MS

\* lines 161-162
scrollSpeed(level, speed) ==
    (IF level.isPro THEN speed ELSE level.speedMultiplier) * SPEED_SCALE

\* lines 164-171: the obstacle list after the spawn step
spawn(obs, due, lucky, type) ==
    IF due /\ lucky THEN Append(obs, [x |-> CANVAS_WIDTH, type |-> type]) ELSE obs

\* line 174
scroll(obs, by) == [i \in 1..Len(obs) |-> [obs[i] EXCEPT !.x = @ - by]]

\* lines 178-186: the collision test of one obstacle
obsHeight(ob) == IF ob.type = "box" THEN BOX_HEIGHT ELSE OBSTACLE_HEIGHT
obsY(ob) == IF ob.type = "box" THEN GROUND_Y - BOX_OFFSET ELSE GROUND_Y - obsHeight(ob)
collidesOnTouch(ob, p) ==
    /\ ob.x <= PLAYER_X + PLAYER_SIZE
    /\ ob.x + OBSTACLE_WIDTH >= PLAYER_X
    /\ ~Less(Plus(p.y, Double(PLAYER_SIZE)), Double(obsY(ob)))
    /\ ~Less(Double(obsY(ob) + obsHeight(ob)), p.y)
collides(ob, p) ==
    /\ ob.x < PLAYER_X + PLAYER_SIZE
    /\ ob.x + OBSTACLE_WIDTH > PLAYER_X
    /\ Less(Double(obsY(ob)), Plus(p.y, Double(PLAYER_SIZE)))
    /\ Less(p.y, Double(obsY(ob) + obsHeight(ob)))
collision(obs, p) == \E i \in 1..Len(obs) : collides(obs[i], p)

\* line 193
onScreen(ob) == ob.x > -OBSTACLE_WIDTH
prune(obs) == SelectSeq(obs, onScreen)

(***************************************************************************)
(* App.tsx: startGame                                                      *)
(***************************************************************************)
\* lines 299-311: requestRef.current is the last frame requested; cancelling it
\* removes it if it is still pending, and a request adds one
cancelAnimationFrameLate(pending) == pending
cancelAnimationFrame(pending) == IF pending > 0 THEN pending - 1 ELSE 0
requestAnimationFrame(pending) == pending + 1

\* lines 85-89: the reset player body (no hoverTime field)
resetPlayer ==
    [y |-> Double(GROUND_Y - PLAYER_SIZE), vy |-> Zero, isJumping |-> FALSE]

\* line 71: the guard of startGame
startAlways(enabled) == TRUE
startAccepted(enabled) == enabled

\* line 72: the alert of a rejected start
StartAlert == "Por favor, activa el microfono antes de empezar."

NoAlert == alertMsg = ""

Init ==
    /\ gameState = [status |-> "menu", currentLevel |-> NullLevel, score |-> 0,
                    soundsDetected |-> 0, timeLeft |-> DEFAULT_TIME_LEFT]
    /\ micEnabled = FALSE
    /\ threshold = DEFAULT_THRESHOLD
    /\ proSpeed = DEFAULT_PRO_SPEED
    /\ audioProcessor = NewAudioProcessor(FALSE)
    /\ player = [y |-> Double(GROUND_Y - PLAYER_SIZE), vy |-> Zero,
                 isJumping |-> FALSE, hoverTime |-> 0]
    /\ obstacles = <<>>
    /\ lastObstacleTime = 0
    /\ gameTime = 0
    /\ soundsCount = 0
    /\ rafPending = 0
    /\ time = StartMs
    /\ alertMsg = ""
    /\ pendingStarts = 0
    /\ openStreams = 0
    /\ volume = 0
    /\ audioStatus = [onset |-> FALSE, offset |-> FALSE, isSounding |-> FALSE]
    /\ lastEdge = "none"
    /\ lastRead = NoRead

sessionVars == <<pendingStarts, openStreams, volume, audioStatus, lastEdge>>
audioVars == <<audioProcessor, sessionVars, lastRead>>
runVars == <<player, obstacles, lastObstacleTime, gameTime, soundsCount>>

\* line 427: the playing screen reads the volume each time it is rendered, while
\* the analyser delivers data
renderPlaying(ap, data) == IF ap.exists THEN getByteFrequencyData(ap, data) ELSE ap

\* line 427: the read made by a rendering of the playing screen, last being the
\* read before it; without a detector getVolume() is not called
renderRead(ap, data, last) ==
    IF ap.exists THEN Read("getVolume", getVolume(ap, data)) ELSE last

\* the detector, and the last read, after a click on a start button: an accepted
\* start renders the playing screen
startRendered(ap, enabled, data) ==
    IF startAccepted(enabled) THEN renderPlaying(ap, data) ELSE ap
startRead(ap, enabled, data, last) ==
    IF startAccepted(enabled) THEN renderRead(ap, data, last) ELSE last

\* startGame(level), lines 70-94; the effect of lines 302-311 requests the first frame
startGameKeepsObstacles(level) ==
    IF ~startAccepted(micEnabled)
    THEN /\ alertMsg' = StartAlert
         /\ UNCHANGED <<gameState, runVars, rafPending>>
    ELSE /\ gameState' = [status |-> "playing", currentLevel |-> level, score |-> 0,
                          soundsDetected |-> 0, timeLeft |-> level.duration]
         /\ player' = resetPlayer
         /\ lastObstacleTime' = 0
         /\ gameTime' = 0
         /\ soundsCount' = 0
         /\ rafPending' = requestAnimationFrame(cancelAnimationFrame(rafPending))
         /\ UNCHANGED <<alertMsg, obstacles>>
startGame(level) ==
    IF ~startAccepted(micEnabled)
    THEN /\ alertMsg' = StartAlert
         /\ UNCHANGED <<gameState, runVars, rafPending>>
    ELSE /\ gameState' = [status |-> "playing", currentLevel |-> level, score |-> 0,
                          soundsDetected |-> 0, timeLeft |-> level.duration]
         /\ player' = resetPlayer
         /\ obstacles' = <<>>
         /\ lastObstacleTime' = 0
         /\ gameTime' = 0
         /\ soundsCount' = 0
         /\ rafPending' = requestAnimationFrame(cancelAnimationFrame(rafPending))
         /\ UNCHANGED alertMsg

\* a level button of the menu, line 334; renderData is what the analyser delivers
\* when the playing screen is rendered
ClickLevel(level, renderData) ==
    /\ NoAlert
    /\ gameState.status = "menu"
    /\ startGame(level)
    /\ audioProcessor' = startRendered(audioProcessor, micEnabled, renderData)
    /\ lastRead' = startRead(audioProcessor, micEnabled, renderData, lastRead)
    /\ UNCHANGED <<micEnabled, threshold, proSpeed, time, sessionVars>>

\* the retry button of the game-over screen, line 464
ClickRetryOnWin(renderData) ==
    /\ NoAlert
    /\ gameState.status \in {"gameover", "win"}
    /\ gameState.currentLevel # NullLevel
    /\ startGame(gameState.currentLevel)
    /\ audioProcessor' = startRendered(audioProcessor, micEnabled, renderData)
    /\ lastRead' = startRead(audioProcessor, micEnabled, renderData, lastRead)
    /\ UNCHANGED <<micEnabled, threshold, proSpeed, time, sessionVars>>
ClickRetry(renderData) ==
    /\ NoAlert
    /\ gameState.status = "gameover"
    /\ gameState.currentLevel # NullLevel
    /\ startGame(gameState.currentLevel)
    /\ audioProcessor' = startRendered(audioProcessor, micEnabled, renderData)
    /\ lastRead' = startRead(audioProcessor, micEnabled, renderData, lastRead)
    /\ UNCHANGED <<micEnabled, threshold, proSpeed, time, sessionVars>>

\* "Salir al Menu" while playing, line 436; the effect cancels the pending frame
ExitToMenu ==
    /\ NoAlert
    /\ gameState.status = "playing"
    /\ gameState' = [gameState EXCEPT !.status = "menu"]
    /\ rafPending' = cancelAnimationFrame(rafPending)
    /\ UNCHANGED <<micEnabled, threshold, proSpeed, runVars, time, alertMsg, audioVars>>

\* the menu buttons of the game-over and win screens, lines 470 and 500
BackToMenu ==
    /\ NoAlert
    /\ gameState.status \in {"gameover", "win"}
    /\ gameState' = [gameState EXCEPT !.status = "menu"]
    /\ rafPending' = cancelAnimationFrame(rafPending)
    /\ UNCHANGED <<micEnabled, threshold, proSpeed, runVars, time, alertMsg, audioVars>>

\* alert() is modal: nothing else runs until it is dismissed
DismissAlert ==
    /\ alertMsg # ""
    /\ alertMsg' = ""
    /\ UNCHANGED <<gameState, micEnabled, threshold, proSpeed, runVars, rafPending,
                   time, audioVars>>

(***************************************************************************)
(* App.tsx: the microphone toggle and the sliders                          *)
(***************************************************************************)
\* line 50-52: the detector is created on first use
ensureProcessor(ap) == IF ap.exists THEN ap ELSE NewAudioProcessor(TRUE)

\* start(), lines 16-25 of the detector, once getUserMedia has resolved
startResolved(ap) ==
    [ap EXCEPT !.stream = "live", !.audioContext = "running", !.analyser = TRUE,
               !.dataArray = NewDataArray]

\* toggleMic, lines 47-62, up to the await of start() or through stop(), with at
\* most maxPending calls of start() in flight and maxStreams streams open
toggleMic(maxPending, maxStreams) ==
    /\ NoAlert
    /\ gameState.status = "menu"
    /\ IF ~micEnabled
       THEN /\ pendingStarts < maxPending
            /\ openStreams + pendingStarts < maxStreams
            /\ audioProcessor' = ensureProcessor(audioProcessor)
            /\ pendingStarts' = pendingStarts + 1
            /\ UNCHANGED <<micEnabled, openStreams>>
       ELSE /\ audioProcessor' =
                  IF audioProcessor.exists THEN stopProcessor(audioProcessor)
                  ELSE audioProcessor
            /\ openStreams' =
                  IF audioProcessor.exists /\ audioProcessor.stream = "live"
                  THEN openStreams - 1 ELSE openStreams
            /\ micEnabled' = FALSE
            /\ UNCHANGED pendingStarts
    /\ UNCHANGED <<gameState, threshold, proSpeed, runVars, rafPending, time,
                   alertMsg, volume, audioStatus, lastEdge, lastRead>>

\* the microphone button of the menu, line 358
ToggleMic == toggleMic(MaxPending, MaxStreams)

\* getUserMedia resolves: start() completes, toggleMic resumes at line 54
StartResolve ==
    /\ NoAlert
    /\ pendingStarts > 0
    /\ pendingStarts' = pendingStarts - 1
    /\ audioProcessor' = startResolved(audioProcessor)
    /\ openStreams' = openStreams + 1
    /\ micEnabled' = TRUE
    /\ UNCHANGED <<gameState, threshold, proSpeed, runVars, rafPending, time,
                   alertMsg, volume, audioStatus, lastEdge, lastRead>>

\* line 56: the alert of a failed start()
MicAlert == "No se pudo acceder al microfono. Por favor, permite el acceso."

\* getUserMedia rejects: start() rethrows, toggleMic alerts at line 56
StartRejectEnables ==
    /\ NoAlert
    /\ pendingStarts > 0
    /\ pendingStarts' = pendingStarts - 1
    /\ alertMsg' = MicAlert
    /\ micEnabled' = TRUE
    /\ UNCHANGED <<gameState, threshold, proSpeed, audioProcessor,
                   runVars, rafPending, time, openStreams, volume, audioStatus,
                   lastEdge, lastRead>>
StartReject ==
    /\ NoAlert
    /\ pendingStarts > 0
    /\ pendingStarts' = pendingStarts - 1
    /\ alertMsg' = MicAlert
    /\ UNCHANGED <<gameState, micEnabled, threshold, proSpeed, audioProcessor,
                   runVars, rafPending, time, openStreams, volume, audioStatus,
                   lastEdge, lastRead>>

\* start() when the statement of the given line, one of lines 17-25, throws after
\* getUserMedia has resolved: the fields assigned by the lines before it
startThrown(ap, line) ==
    [ap EXCEPT !.stream = "live",
               !.audioContext = IF line > 17 THEN "running" ELSE @,
               !.analyser = IF line > 18 THEN TRUE ELSE @,
               !.dataArray = IF line > 23 THEN NewDataArray ELSE @]

\* the statements of start() after the await that call into the browser
ThrowLines == {17, 18, 19, 25}

\* getUserMedia resolves and a later statement of start() throws: the catch of
\* lines 26-29 rethrows with the stream acquired and not stopped, toggleMic
\* alerts at line 56
StartThrow(line) ==
    /\ NoAlert
    /\ pendingStarts > 0
    /\ pendingStarts' = pendingStarts - 1
    /\ audioProcessor' = startThrown(audioProcessor, line)
    /\ openStreams' = openStreams + 1
    /\ alertMsg' = MicAlert
    /\ UNCHANGED <<gameState, micEnabled, threshold, proSpeed, runVars, rafPending,
                   time, volume, audioStatus, lastEdge, lastRead>>

\* lines 64-68: the effect of a changed threshold on the detector
thresholdEffect(ap, value) == IF ap.exists THEN setThreshold(ap, value) ELSE ap

\* the sensitivity slider of the menu, line 370, and the effect of lines 64-68
ChangeThreshold(value) ==
    /\ NoAlert
    /\ gameState.status = "menu"
    /\ value # threshold
    /\ threshold' = value
    /\ audioProcessor' = thresholdEffect(audioProcessor, value)
    /\ UNCHANGED <<gameState, micEnabled, proSpeed, runVars, rafPending, time,
                   alertMsg, pendingStarts, openStreams, volume, audioStatus,
                   lastEdge, lastRead>>

\* the speed slider of a pro level, line 398; the playing screen is rendered
\* again, reading renderData, and the effect of lines 302-311 cancels the pending
\* frame and requests a new one
ChangeProSpeed(value, renderData) ==
    /\ NoAlert
    /\ gameState.status = "playing"
    /\ gameState.currentLevel.isPro
    /\ value # proSpeed
    /\ proSpeed' = value
    /\ audioProcessor' = renderPlaying(audioProcessor, renderData)
    /\ lastRead' = renderRead(audioProcessor, renderData, lastRead)
    /\ rafPending' = requestAnimationFrame(cancelAnimationFrame(rafPending))
    /\ UNCHANGED <<gameState, micEnabled, threshold, runVars, time, alertMsg,
                   sessionVars>>

(***************************************************************************)
(* App.tsx: gameLoop, lines 96-300, as a function of the state it reads    *)
(* and writes.  g holds gameState, audioProcessor, player, obstacles,      *)
(* lastObstacleTime, gameTime, soundsCount, rafPending, volume,            *)
(* audioStatus, lastEdge and lastRead; t is the timestamp of the frame, speed the    *)
(* value of proSpeed and pick the outcome of the two Math.random() draws   *)
(* ("none": no obstacle, else its type).  The analyser delivers data to    *)
(* the checkSound() of line 117, data2 to the getVolume() of line 119 and  *)
(* renderData to the getVolume() of line 427 when the frame has the        *)
(* playing screen rendered again.                                          *)
(***************************************************************************)
edgeOf(st, last) ==
    IF st.onset THEN "onset" ELSE IF st.offset THEN "offset" ELSE last

Silent == [onset |-> FALSE, offset |-> FALSE, isSounding |-> FALSE]

\* lines 102-111: the frame on which the time is up
timeUp(g) ==
    [g EXCEPT !.gameState =
                  [@ EXCEPT !.status = timeoutStatus(g.gameState.currentLevel, g.soundsCount)],
              !.gameTime = @ + DT,
              !.rafPending = @ - 1]

\* lines 113-129: the poll of the detector, the second read of the volume and
\* the jump on an onset
polled(g, data, data2) ==
    LET ap == g.audioProcessor
        v == getVolume(ap, data)
        st == IF ap.exists THEN checkSound(ap, v) ELSE Silent
    IN  [g EXCEPT !.audioProcessor =
                      IF ap.exists
                      THEN getByteFrequencyData(
                               afterCheckSound(getByteFrequencyData(ap, data), v),
                               data2)
                      ELSE @,
                  !.volume = IF ap.exists THEN v ELSE @,
                  !.audioStatus = st,
                  !.lastEdge = edgeOf(st, @),
                  !.lastRead = IF ap.exists
                               THEN Read("getVolume", getVolume(ap, data2))
                               ELSE @,
                  !.player = IF st.onset THEN onsetJump(@) ELSE @,
                  !.soundsCount = IF st.onset THEN @ + 1 ELSE @,
                  !.gameState = IF st.onset
                                THEN [@ EXCEPT !.soundsDetected = g.soundsCount + 1]
                                ELSE @]

\* lines 131-157: physics and boundary checks
moved(g) ==
    LET hover(p) == hoverPhysics(p, g.audioStatus.isSounding)
    IN  [g EXCEPT !.player = Then(Then(Then(@, hover), integrate), boundaryChecks)]

\* lines 159-174: obstacle generation and scrolling
generatedResetOnSpawn(g, t, speed, pick) ==
    LET level == g.gameState.currentLevel
        due == spawnDue(level, t, g.lastObstacleTime)
    IN  [g EXCEPT !.obstacles = scroll(spawn(@, due, pick # "none", pick),
                                       scrollSpeed(level, speed)),
                  !.lastObstacleTime = IF due /\ pick # "none" THEN t ELSE @]
generated(g, t, speed, pick) ==
    LET level == g.gameState.currentLevel
        due == spawnDue(level, t, g.lastObstacleTime)
    IN  [g EXCEPT !.obstacles = scroll(spawn(@, due, pick # "none", pick),
                                       scrollSpeed(level, speed)),
                  !.lastObstacleTime = IF due THEN t ELSE @]

\* lines 176-193 and 299: collision detection, pruning, the next frame request
collided(g) ==
    IF collision(g.obstacles, g.player)
    THEN [g EXCEPT !.gameState = [@ EXCEPT !.status = "gameover"],
                   !.rafPending = @ - 1]
    ELSE [g EXCEPT !.obstacles = prune(@),
                   !.rafPending = requestAnimationFrame(@ - 1)]

\* lines 127 and 427: the setGameState of an onset has the playing screen
\* rendered again once the frame is over, unless the frame has ended the run
rendered(g, renderData) ==
    IF g.audioStatus.onset /\ g.gameState.status = "playing"
    THEN [g EXCEPT !.audioProcessor = renderPlaying(@, renderData),
                   !.lastRead = renderRead(g.audioProcessor, renderData, @)]
    ELSE g

gameLoop(g, t, speed, data, data2, renderData, pick) ==
    IF g.gameState.status # "playing" \/ g.gameState.currentLevel = NullLevel
    THEN g
    ELSE IF newTimeLeft(g.gameState.currentLevel, g.gameTime + DT) = 0
         THEN timeUp(g)
         ELSE LET audio(x) == polled(x, data, data2)
                  spawns(x) == generated(x, t, speed, pick)
                  render(x) == rendered(x, renderData)
              IN  Then(Then(Then(Then(Then([g EXCEPT !.gameTime = @ + DT],
                                           audio), moved), spawns), collided), render)

\* the state gameLoop works on
Game ==
    [gameState |-> gameState, audioProcessor |-> audioProcessor, player |-> player,
     obstacles |-> obstacles, lastObstacleTime |-> lastObstacleTime,
     gameTime |-> gameTime, soundsCount |-> soundsCount, rafPending |-> rafPending,
     volume |-> volume, audioStatus |-> audioStatus, lastEdge |-> lastEdge,
     lastRead |-> lastRead]

Becomes(g) ==
    /\ gameState' = g.gameState
    /\ audioProcessor' = g.audioProcessor
    /\ player' = g.player
    /\ obstacles' = g.obstacles
    /\ lastObstacleTime' = g.lastObstacleTime
    /\ gameTime' = g.gameTime
    /\ soundsCount' = g.soundsCount
    /\ rafPending' = g.rafPending
    /\ volume' = g.volume
    /\ audioStatus' = g.audioStatus
    /\ lastEdge' = g.lastEdge
    /\ lastRead' = g.lastRead

\* one animation frame: the host calls the pending gameLoop
Frame(data, data2, renderData, pick, maxFrames) ==
    /\ NoAlert
    /\ rafPending > 0
    /\ gameState.status = "playing"
    /\ time + FrameMs <= StartMs + maxFrames * FrameMs
    /\ \E next \in {gameLoop(Game, time + FrameMs, proSpeed, data, data2,
                              renderData, pick)} :
          /\ Len(next.obstacles) <= MaxObstacles
          /\ Becomes(next)
    /\ time' = time + FrameMs
    /\ UNCHANGED <<micEnabled, threshold, proSpeed, alertMsg, pendingStarts,
                   openStreams>>

(***************************************************************************)
(* Inputs                                                                  *)
(***************************************************************************)
\* magnitude buffers, with peaks 30 and 45
Buffers == {<<0, 30>>, <<45, 0>>}
\* positions of the sensitivity slider
Thresholds == {30, 60}
\* positions of the pro speed slider (tenths), in Spec and in SpecPro
ProSpeeds == {15, 25}
FastSpeeds == {50}
Picks == {"none"} \cup ObstacleTypes
\* the draws of Spec, whose runs end before an obstacle reaches the player: one
\* kind of obstacle stands for the three
ShortPicks == {"none", "pipe"}

\* The frames of a long run come in windows of n frames.  During the first
\* FreeFrames frames of a window the analyser delivers any buffer and
\* Math.random() draws anything; during the others the sound goes on as it is,
\* or the silence, and no obstacle is drawn.
FreeFrame(n) == (gameTime \div DT) % n < FreeFrames
\* the buffers that leave the detector as it is: a peak above its threshold while
\* it sounds, not above it while it is quiet
Steady ==
    {data \in Buffers :
        (PeakOf(data) > audioProcessor.threshold) = audioProcessor.isSounding}
Signal(n) == IF FreeFrame(n) THEN Buffers ELSE Steady
Draws(n) == IF FreeFrame(n) THEN Picks ELSE {"none"}
\* no frame has been delivered yet: the run about to start is the first
FirstRun == time = StartMs

(***************************************************************************)
(* Spec: the whole application on levels that last ShortDuration.          *)
(***************************************************************************)
ShortLevels == LEVELS({4}, {ShortDuration})

Next ==
    \/ ToggleMic
    \/ StartResolve
    \/ StartReject
    \/ \E line \in ThrowLines : StartThrow(line)
    \/ DismissAlert
    \/ \E value \in Thresholds : ChangeThreshold(value)
    \/ \E value \in ProSpeeds, renderData \in Buffers : ChangeProSpeed(value, renderData)
    \/ \E lv \in ShortLevels, renderData \in Buffers : ClickLevel(lv, renderData)
    \/ \E renderData \in Buffers : ClickRetry(renderData)
    \/ ExitToMenu
    \/ BackToMenu
    \/ \E data, data2, renderData \in Buffers, pick \in ShortPicks :
          Frame(data, data2, renderData, pick, MaxFrames)

Spec == Init /\ [][Next]_vars

(***************************************************************************)
(* SpecRun: one long run of level 3, from the enabling of the microphone,  *)
(* in windows of HoldFrames frames; the run can be left by the exit button *)
(* after any frame.                                                        *)
(***************************************************************************)
LongLevels == {Level(3, LongDuration, MaxRequired)}

\* the microphone button pressed while no start() is in flight and no stream is
\* open: the microphone is enabled once
EnableMic == pendingStarts = 0 /\ openStreams = 0 /\ ToggleMic

NextRun ==
    \/ EnableMic
    \/ StartResolve
    \/ \E lv \in LongLevels, renderData \in Buffers :
          FirstRun /\ ClickLevel(lv, renderData)
    \/ ExitToMenu
    \/ \E data, data2, renderData \in Signal(HoldFrames), pick \in Draws(HoldFrames) :
          Frame(data, data2, renderData, pick, MaxRunFrames)

SpecRun == Init /\ [][NextRun]_vars

(***************************************************************************)
(* SpecPro: one run of the pro level 4, in windows of ProHoldFrames        *)
(* frames, with the speed slider moved to 5.0 after any frame; long enough *)
(* for an obstacle to reach the player and for the time to be up.          *)
(***************************************************************************)
ProLevels == {Level(4, ProDuration, MaxRequired)}

NextPro ==
    \/ EnableMic
    \/ StartResolve
    \/ \E lv \in ProLevels, renderData \in Buffers :
          FirstRun /\ ClickLevel(lv, renderData)
    \/ \E value \in FastSpeeds, renderData \in Signal(ProHoldFrames) :
          ChangeProSpeed(value, renderData)
    \/ ExitToMenu
    \/ \E data, data2, renderData \in Signal(ProHoldFrames),
          pick \in Draws(ProHoldFrames) :
          Frame(data, data2, renderData, pick, MaxProFrames)

SpecPro == Init /\ [][NextPro]_vars

(***************************************************************************)
(* SpecBeat: one run of level 3 over more than two beats, in windows of    *)
(* BeatHoldFrames frames, each beat falling on a free frame.               *)
(***************************************************************************)
NextBeat ==
    \/ EnableMic
    \/ StartResolve
    \/ \E lv \in LongLevels, renderData \in Buffers :
          FirstRun /\ ClickLevel(lv, renderData)
    \/ ExitToMenu
    \/ \E data, data2, renderData \in Signal(BeatHoldFrames),
          pick \in Draws(BeatHoldFrames) :
          Frame(data, data2, renderData, pick, MaxBeatFrames)

SpecBeat == Init /\ [][NextBeat]_vars

(***************************************************************************)
(* SpecLive: runs of the short level whose frames keep being delivered: a  *)
(* run starts only while the frames left suffice for its whole duration,   *)
(* and a pending frame is eventually run.                                  *)
(***************************************************************************)
\* the frames after which the time of a level is up: ceil(duration / 0.01667)
FramesOf(lv) == (lv.duration + DT - 1) \div DT

\* the frames still to be delivered suffice for a whole run of lv
FramesLeftFor(lv) ==
    time + FramesOf(lv) * FrameMs <= StartMs + MaxLiveFrames * FrameMs

LiveFrame ==
    \E data, data2, renderData \in Buffers, pick \in ShortPicks :
        Frame(data, data2, renderData, pick, MaxLiveFrames)

NextLive ==
    \/ EnableMic
    \/ StartResolve
    \/ \E lv \in ShortLevels, renderData \in Buffers :
          FramesLeftFor(lv) /\ ClickLevel(lv, renderData)
    \/ \E renderData \in Buffers :
          FramesLeftFor(gameState.currentLevel) /\ ClickRetry(renderData)
    \/ ExitToMenu
    \/ BackToMenu
    \/ LiveFrame

SpecLive == Init /\ [][NextLive]_vars /\ WF_vars(LiveFrame)

(***************************************************************************)
(* SpecDetector: the AudioProcessor on its own, its methods called in any  *)
(* order by a caller that keeps in threshold the last value it passed to   *)
(* setThreshold.                                                           *)
(***************************************************************************)
\* the magnitude buffers the analyser may deliver, and the values passed to
\* setThreshold
DetectorBuffers == [1..BinCount -> {0, 30, 90}]
DetectorThresholds == {5, 30, 90}

appVars == <<gameState, micEnabled, proSpeed, player, obstacles, lastObstacleTime,
             gameTime, soundsCount, rafPending, time, alertMsg>>

InitDetector ==
    /\ gameState = [status |-> "menu", currentLevel |-> NullLevel, score |-> 0,
                    soundsDetected |-> 0, timeLeft |-> DEFAULT_TIME_LEFT]
    /\ micEnabled = FALSE
    /\ threshold = DEFAULT_THRESHOLD
    /\ proSpeed = DEFAULT_PRO_SPEED
    /\ audioProcessor = NewAudioProcessor(TRUE)
    /\ player = [y |-> Double(GROUND_Y - PLAYER_SIZE), vy |-> Zero,
                 isJumping |-> FALSE, hoverTime |-> 0]
    /\ obstacles = <<>>
    /\ lastObstacleTime = 0
    /\ gameTime = 0
    /\ soundsCount = 0
    /\ rafPending = 0
    /\ time = StartMs
    /\ alertMsg = ""
    /\ pendingStarts = 0
    /\ openStreams = 0
    /\ volume = 0
    /\ audioStatus = Silent
    /\ lastEdge = "none"
    /\ lastRead = NoRead

\* start() up to the await of getUserMedia, line 16
CallStart ==
    /\ pendingStarts < RacePending
    /\ openStreams + pendingStarts < RaceStreams
    /\ pendingStarts' = pendingStarts + 1
    /\ UNCHANGED <<appVars, threshold, audioProcessor, openStreams, volume,
                   audioStatus, lastEdge, lastRead>>

\* getUserMedia resolves: lines 16-25 complete
StartReturns ==
    /\ pendingStarts > 0
    /\ pendingStarts' = pendingStarts - 1
    /\ audioProcessor' = startResolved(audioProcessor)
    /\ openStreams' = openStreams + 1
    /\ UNCHANGED <<appVars, threshold, volume, audioStatus, lastEdge, lastRead>>

\* getUserMedia rejects: lines 26-29 rethrow
StartThrows ==
    /\ pendingStarts > 0
    /\ pendingStarts' = pendingStarts - 1
    /\ UNCHANGED <<appVars, threshold, audioProcessor, openStreams, volume,
                   audioStatus, lastEdge, lastRead>>

\* getUserMedia resolves and a later statement throws: lines 26-29 rethrow with
\* the stream acquired
StartThrowsAt(line) ==
    /\ pendingStarts > 0
    /\ pendingStarts' = pendingStarts - 1
    /\ audioProcessor' = startThrown(audioProcessor, line)
    /\ openStreams' = openStreams + 1
    /\ UNCHANGED <<appVars, threshold, volume, audioStatus, lastEdge, lastRead>>

\* stop(), lines 32-39
CallStop ==
    /\ audioProcessor' = stopProcessor(audioProcessor)
    /\ openStreams' = IF audioProcessor.stream = "live"
                      THEN openStreams - 1 ELSE openStreams
    /\ UNCHANGED <<appVars, threshold, pendingStarts, volume, audioStatus, lastEdge, lastRead>>

\* setThreshold(value), lines 41-43
CallSetThreshold(value) ==
    /\ threshold' = value
    /\ audioProcessor' = setThreshold(audioProcessor, value)
    /\ UNCHANGED <<appVars, pendingStarts, openStreams, volume, audioStatus,
                   lastEdge, lastRead>>

\* checkSound(), lines 59-74, with its call of getVolume(), lines 45-57, while the
\* analyser delivers data
CallCheckSound(data) ==
    /\ \E v \in {getVolume(audioProcessor, data)} :
          /\ volume' = v
          /\ audioStatus' = checkSound(audioProcessor, v)
          /\ lastEdge' = edgeOf(checkSound(audioProcessor, v), lastEdge)
          /\ lastRead' = Read("checkSound", v)
          /\ audioProcessor' =
                afterCheckSound(getByteFrequencyData(audioProcessor, data), v)
    /\ UNCHANGED <<appVars, threshold, pendingStarts, openStreams>>

\* getVolume() on its own, lines 45-57, while the analyser delivers data
CallGetVolume(data) ==
    /\ lastRead' = Read("getVolume", getVolume(audioProcessor, data))
    /\ audioProcessor' = getByteFrequencyData(audioProcessor, data)
    /\ UNCHANGED <<appVars, threshold, pendingStarts, openStreams, volume,
                   audioStatus, lastEdge>>

NextDetector ==
    \/ CallStart
    \/ StartReturns
    \/ StartThrows
    \/ \E line \in ThrowLines : StartThrowsAt(line)
    \/ CallStop
    \/ \E value \in DetectorThresholds : CallSetThreshold(value)
    \/ \E data \in DetectorBuffers : CallCheckSound(data)
    \/ \E data \in DetectorBuffers : CallGetVolume(data)

SpecDetector == InitDetector /\ [][NextDetector]_vars

(***************************************************************************)
(* SpecMic: the menu with its microphone button pressed at any time, also  *)
(* while earlier calls of start() are still waiting for the device.        *)
(***************************************************************************)
NextMic ==
    \/ toggleMic(RacePending, RaceStreams)
    \/ StartResolve
    \/ StartReject
    \/ \E line \in ThrowLines : StartThrow(line)
    \/ DismissAlert
    \/ \E value \in Thresholds : ChangeThreshold(value)
    \/ \E lv \in ShortLevels, renderData \in Buffers : ClickLevel(lv, renderData)
    \/ ExitToMenu

SpecMic == Init /\ [][NextMic]_vars

(***************************************************************************)
(* Properties                                                              *)
(***************************************************************************)
status == gameState.status
level == gameState.currentLevel
Ground == Double(GROUND_Y - PLAYER_SIZE)

\* a step that is one call of gameLoop
FrameStep == gameTime' = gameTime + DT
\* a frame that does not end by the time being up, and so polls the detector
PollStep == FrameStep /\ newTimeLeft(level, gameTime') > 0

\* C1 (as stated): the status only moves menu -> playing, playing -> gameover,
\* playing -> win, gameover -> menu, win -> menu and gameover -> playing; there is
\* no step from playing to menu.
C1_StatedTransitions ==
    [][status' # status =>
          <<status, status'>> \in {<<"menu", "playing">>, <<"playing", "gameover">>,
                                   <<"playing", "win">>, <<"gameover", "menu">>,
                                   <<"win", "menu">>, <<"gameover", "playing">>}]_vars

\* C1 (amended): the status only moves along the stated transitions and, by the
\* exit button of the playing screen, from playing to menu.
C1_Transitions ==
    [][status' # status =>
          <<status, status'>> \in {<<"menu", "playing">>, <<"playing", "gameover">>,
                                   <<"playing", "win">>, <<"gameover", "menu">>,
                                   <<"win", "menu">>, <<"gameover", "playing">>,
                                   <<"playing", "menu">>}]_vars

\* a run left by the exit button: back in the menu with time left and no collision
C1_Witness ==
    /\ status = "menu"
    /\ level # NullLevel
    /\ gameTime > 0
    /\ newTimeLeft(level, gameTime) > 0
    /\ ~collision(obstacles, player)

\* C2: the frame on which the elapsed time reaches the duration ends the run with
\* win if the sounds counted so far are at least the required ones and with
\* gameover otherwise, and win is entered by no other step.
C2_TimeoutDecides ==
    [][/\ (status = "playing" /\ FrameStep /\ newTimeLeft(level, gameTime') = 0)
          => status' = IF soundsCount >= level.requiredSounds THEN "win" ELSE "gameover"
       /\ (status' = "win" /\ status # "win")
          => /\ status = "playing"
             /\ FrameStep
             /\ newTimeLeft(level, gameTime') = 0
             /\ soundsCount >= level.requiredSounds]_vars

\* a run won with exactly the required number of sounds
C2_Witness ==
    /\ status = "win"
    /\ soundsCount = level.requiredSounds
    /\ level.requiredSounds = MaxRequired

\* C3: while the microphone is not enabled no step, startGame included, changes
\* the status, the level, the sound counter, the elapsed time, the spawn timer,
\* the player or the obstacles.
C3_RejectedStart ==
    [][~micEnabled => UNCHANGED <<gameState, soundsCount, gameTime, lastObstacleTime,
                                  player, obstacles>>]_vars

\* a start rejected in the menu after a run that counted sounds
C3_Witness ==
    /\ alertMsg = StartAlert
    /\ ~micEnabled
    /\ soundsCount > 0
    /\ obstacles # <<>>

\* C4: every step into playing leaves no obstacle, a sound counter, an elapsed
\* time and a spawn timer of 0, and the player on the ground at rest.
C4_ResetComplete ==
    [][(status' = "playing" /\ status # "playing") =>
          /\ obstacles' = <<>>
          /\ soundsCount' = 0
          /\ gameState'.soundsDetected = 0
          /\ gameTime' = 0
          /\ lastObstacleTime' = 0
          /\ player'.y = Ground
          /\ player'.vy = Zero
          /\ ~player'.isJumping]_vars

\* a run just started while the detector still sounds from the run before
C4_Witness ==
    /\ status = "playing"
    /\ gameTime = 0
    /\ soundsCount = 0
    /\ obstacles = <<>>
    /\ audioProcessor.isSounding

\* C5: no call of checkSound returns onset and offset together.
C5_EdgeExclusive == ~(audioStatus.onset /\ audioStatus.offset)

\* a poll that reported an offset
C5_Witness == audioStatus.offset /\ ~audioStatus.onset

\* C6: a poll that reads volume v with threshold t returns onset = (v > t and not
\* sounding before), offset = (v <= t and sounding before), isSounding = (v > t)
\* and stores isSounding = (v > t); an onset never follows an onset, and an
\* offset only follows an onset.
C6_CheckSound ==
    [][(PollStep /\ audioProcessor.exists) =>
          LET v == volume'
              t == audioProcessor.threshold
              was == audioProcessor.isSounding
          IN  /\ audioStatus'.onset = (v > t /\ ~was)
              /\ audioStatus'.offset = (v <= t /\ was)
              /\ audioStatus'.isSounding = (v > t)
              /\ audioProcessor'.isSounding = (v > t)
              /\ audioStatus'.onset => lastEdge # "onset"
              /\ audioStatus'.offset => lastEdge = "onset"]_vars

\* the second onset of a run: onset, offset, onset
C6_Witness ==
    /\ status = "playing"
    /\ soundsCount = 2
    /\ audioStatus.onset

\* the boxes of the player and of an obstacle overlap on both axes, strictly
Overlaps(ob, p) ==
    /\ Max(ob.x, PLAYER_X) < Min(ob.x + OBSTACLE_WIDTH, PLAYER_X + PLAYER_SIZE)
    /\ Less(Greater(Double(obsY(ob)), p.y),
            Lesser(Double(obsY(ob) + obsHeight(ob)), Plus(p.y, Double(PLAYER_SIZE))))
AnyOverlap(obs, p) == \E i \in 1..Len(obs) : Overlaps(obs[i], p)

\* C7 (as stated): a frame sets the status to gameover if and only if, after
\* scrolling, some live obstacle strictly overlaps the player.
C7_StatedCollision ==
    [][(status = "playing" /\ gameTime' > gameTime) =>
          ((status' = "gameover") <=> AnyOverlap(obstacles', player'))]_vars

\* C7 (amended): a frame that does not end the run by its time being up sets the
\* status to gameover if and only if, after scrolling, some live obstacle
\* strictly overlaps the player; so a frame that leaves the status playing
\* leaves no obstacle overlapping the player.
C7_Collision ==
    [][(status = "playing" /\ gameTime' > gameTime) =>
          /\ newTimeLeft(level, gameTime') > 0
                => ((status' = "gameover") <=> AnyOverlap(obstacles', player'))
          /\ status' = "playing" => ~AnyOverlap(obstacles', player')]_vars

\* still playing with an obstacle whose right edge touches the player's left edge
\* while their heights overlap
C7_Witness ==
    /\ status = "playing"
    /\ \E i \in 1..Len(obstacles) :
          /\ obstacles[i].x + OBSTACLE_WIDTH = PLAYER_X
          /\ Less(Greater(Double(obsY(obstacles[i])), player.y),
                  Lesser(Double(obsY(obstacles[i]) + obsHeight(obstacles[i])),
                         Plus(player.y, Double(PLAYER_SIZE))))

\* the player of a polling frame before the boundary checks
Unclamped ==
    integrate(hoverPhysics(IF audioStatus'.onset THEN onsetJump(player) ELSE player,
                           audioStatus'.isSounding))

\* C8: the player's vertical position always lies in [0, groundLevel - bodyHeight];
\* a frame that clamps to the ground leaves vy = 0 and isJumping = false, one that
\* clamps to the ceiling leaves vy = 0 and isJumping as it was; at rest on the
\* ground and without an onset the position stays on the ground.
C8_Clamp ==
    /\ [](~Less(player.y, Zero) /\ ~Less(Ground, player.y))
    /\ [][PollStep =>
            /\ Less(Ground, Unclamped.y)
                  => player'.y = Ground /\ player'.vy = Zero /\ ~player'.isJumping
            /\ Less(Unclamped.y, Zero)
                  => /\ player'.y = Zero
                     /\ player'.vy = Zero
                     /\ player'.isJumping = Unclamped.isJumping
            /\ (~Less(Unclamped.y, Zero) /\ ~Less(Ground, Unclamped.y))
                  => player' = Unclamped
            /\ (player.y = Ground /\ player.vy = Zero /\ ~audioStatus'.onset)
                  => player'.y = Ground]_vars

\* back on the ground, not jumping, after a hover long enough to reach the ceiling
C8_Witness ==
    /\ status = "playing"
    /\ player.y = Ground
    /\ player.vy = Zero
    /\ ~player.isJumping
    /\ "hoverTime" \in DOMAIN player
    /\ player.hoverTime >= 25 * DT

\* C9: in a frame without onset in which the detector sounds and the player is
\* jumping, the hover (vy clamped to at most 1.0, no gravity, hover time advanced
\* by the timestep) applies while the hover time is below 2.0 s, and full gravity
\* is added to vy once it is not; an onset restarts the hover time.
C9_HoverBudget ==
    [][PollStep =>
          /\ (~audioStatus'.onset /\ audioStatus'.isSounding /\ player.isJumping)
                => IF player.hoverTime < HOVER_BUDGET
                   THEN player' = boundaryChecks(
                            [player EXCEPT !.vy = Lesser(@, HOVER_DRIFT),
                                           !.y = Plus(@, Lesser(player.vy, HOVER_DRIFT)),
                                           !.hoverTime = @ + DT])
                   ELSE player' = boundaryChecks(
                            [player EXCEPT !.vy = Plus(@, GRAVITY),
                                           !.y = Plus(@, Plus(player.vy, GRAVITY))])
          /\ audioStatus'.onset => player'.hoverTime = DT]_vars

\* gravity at work during a sound that has used up the hover budget
C9_Witness ==
    /\ status = "playing"
    /\ audioStatus.isSounding
    /\ player.isJumping
    /\ player.hoverTime >= HOVER_BUDGET
    /\ Less(HOVER_DRIFT, player.vy)

\* C10: at every poll the threshold of the detector is the value of the
\* sensitivity slider.
C10_ThresholdFollowsSlider ==
    [][(PollStep /\ audioProcessor.exists) => audioProcessor.threshold = threshold]_vars

\* a frame has polled a detector whose threshold is not the slider's value
C10_Witness ==
    /\ status = "playing"
    /\ gameTime > 0
    /\ audioProcessor.exists
    /\ audioProcessor.threshold # threshold

\* a call of checkSound or of getVolume: the detector is not started, stopped or
\* given a threshold, and the caller's state is left alone
Reads ==
    /\ UNCHANGED <<appVars, threshold, pendingStarts, openStreams>>
    /\ audioProcessor'.stream = audioProcessor.stream
    /\ audioProcessor'.audioContext = audioProcessor.audioContext
    /\ audioProcessor'.threshold = audioProcessor.threshold
\* a call of checkSound
Polls == Reads /\ lastRead'.method = "checkSound"

\* C11: while the detector holds no live session, before the first start() and
\* after stop(), getVolume returns 0 and checkSound reports isSounding = false
\* and no onset.
C11_NoSessionReadsSilence ==
    [][(Reads /\ audioProcessor.stream # "live")
          => /\ lastRead'.volume = 0
             /\ Polls => /\ volume' = 0
                         /\ ~audioProcessor'.isSounding
                         /\ ~audioStatus'.isSounding
                         /\ ~audioStatus'.onset]_vars

\* C12: at most one capture stream is acquired and not yet released at any time.
C12_OneSession == openStreams <= 1

\* the microphone is shown as off and the detector is stopped, while a capture
\* stream acquired by an earlier start() is still open
C12_Witness ==
    /\ ~micEnabled
    /\ pendingStarts = 0
    /\ audioProcessor.stream = "stopped"
    /\ openStreams > 0

\* C13: a failed start() is reported to the user by toggleMic and not retried: it
\* leaves the microphone flag and the status as they were, with one call less in
\* flight, and, when it is the acquisition of the device that failed (no stream
\* was opened), the detector as it was; the flag is raised only by a start() that
\* acquired a stream, and a run starts only while the flag is raised.
C13_FailedStart ==
    /\ [][(alertMsg = "" /\ alertMsg' = MicAlert)
             => /\ micEnabled' = micEnabled
                /\ pendingStarts' = pendingStarts - 1
                /\ status' = status
                /\ openStreams' = openStreams => audioProcessor' = audioProcessor]_vars
    /\ [][(~micEnabled /\ micEnabled')
             => openStreams' = openStreams + 1 /\ audioProcessor'.stream = "live"]_vars
    /\ [][(status # "playing" /\ status' = "playing") => micEnabled]_vars

\* the only start() has failed: the alert is up, the microphone is not enabled and
\* nothing is in flight
C13_Witness ==
    /\ alertMsg = MicAlert
    /\ ~micEnabled
    /\ pendingStarts = 0
    /\ openStreams = 0

\* C14: the detector compares against the last value given to setThreshold, from
\* the very next poll on: a poll of a sounding detector whose threshold is at or
\* above the volume read reports isSounding = false with an offset, and a poll of
\* a quiet detector whose threshold is below the volume read reports
\* isSounding = true with an onset.
C14_ThresholdNextPoll ==
    /\ [](audioProcessor.threshold = threshold)
    /\ [][Polls =>
            /\ (audioProcessor.isSounding /\ threshold >= volume')
                  => /\ ~audioStatus'.isSounding
                     /\ audioStatus'.offset
                     /\ ~audioStatus'.onset
                     /\ ~audioProcessor'.isSounding
            /\ (~audioProcessor.isSounding /\ threshold < volume')
                  => /\ audioStatus'.isSounding
                     /\ audioStatus'.onset
                     /\ ~audioStatus'.offset
                     /\ audioProcessor'.isSounding]_vars

\* the last poll read a volume above the default threshold and reported an offset:
\* the threshold had been raised to that very volume while the detector sounded
C14_Witness ==
    /\ audioStatus.offset
    /\ volume > DEFAULT_THRESHOLD
    /\ threshold = volume
    /\ audioProcessor.threshold = volume

\* C15: with a live session set up by a completed start() the volume that
\* getVolume returns, called on its own or by checkSound, is the largest bin of the
\* magnitude buffer the analyser has just written: no bin is above it and one bin
\* equals it; it is the volume checkSound compares with the threshold.
C15_PeakVolume ==
    [][(Reads /\ audioProcessor.stream = "live" /\ canRead(audioProcessor))
          => /\ \A i \in DOMAIN audioProcessor'.dataArray :
                   audioProcessor'.dataArray[i] <= lastRead'.volume
             /\ \E i \in DOMAIN audioProcessor'.dataArray :
                   audioProcessor'.dataArray[i] = lastRead'.volume
             /\ Polls => volume' = lastRead'.volume]_vars

\* getVolume, called on its own, has returned 90 from a buffer with one bin at 90
\* and the others at 0, the bin at 90 not being the last one
C15_Witness ==
    /\ audioProcessor.stream = "live"
    /\ lastRead = Read("getVolume", 90)
    /\ audioProcessor.dataArray[1] = 90
    /\ \A i \in DOMAIN audioProcessor.dataArray :
          i # 1 => audioProcessor.dataArray[i] = 0

\* C16: stop() changes nothing on a detector that was never started, a second
\* stop() changes nothing after a first one, and stop() leaves no live stream in
\* the detector; the stop() of a detector holding the only open stream leaves no
\* stream open.
C16_StopIdempotent ==
    /\ [](/\ (audioProcessor.stream = "null" /\ audioProcessor.audioContext = "null")
                => stopProcessor(audioProcessor) = audioProcessor
          /\ stopProcessor(stopProcessor(audioProcessor)) = stopProcessor(audioProcessor)
          /\ stopProcessor(audioProcessor).stream # "live")
    /\ [][(audioProcessor.stream = "live" /\ audioProcessor'.stream = "stopped")
             => /\ audioProcessor' = stopProcessor(audioProcessor)
                /\ openStreams' = openStreams - 1
                /\ openStreams = 1 => openStreams' = 0]_vars

\* a started detector has been stopped: stream stopped, context closed, no stream
\* open
C16_Witness ==
    /\ audioProcessor.stream = "stopped"
    /\ audioProcessor.audioContext = "closed"
    /\ openStreams = 0
    /\ pendingStarts = 0

\* C17: a playing frame that does not end the run by timeout polls the detector
\* once: the status it uses is that of one checkSound on the detector as it was.
\* On an onset the player leaves the frame jumping, with the jump impulse as vy
\* (0 if the frame ends at the ceiling), moved up by the impulse, the hover timer
\* one timestep after its reset, and the sound counter one higher; without onset
\* the counter is unchanged.  The counter only changes by such a step or by the
\* reset of startGame, and soundsDetected always equals it.
C17_OnsetJump ==
    /\ [](gameState.soundsDetected = soundsCount)
    /\ [][PollStep =>
            /\ audioStatus'.isSounding = (volume' > audioProcessor.threshold)
            /\ audioStatus'.onset = (audioStatus'.isSounding /\ ~audioProcessor.isSounding)
            /\ audioProcessor'.isSounding = audioStatus'.isSounding
            /\ IF audioStatus'.onset
               THEN /\ soundsCount' = soundsCount + 1
                    /\ player'.isJumping
                    /\ player'.hoverTime = DT
                    /\ player'.y = Greater(Zero, Plus(player.y, JUMP_FORCE))
                    /\ player'.vy = IF Less(Plus(player.y, JUMP_FORCE), Zero)
                                    THEN Zero ELSE JUMP_FORCE
               ELSE soundsCount' = soundsCount]_vars
    /\ [][soundsCount' # soundsCount
             => \/ gameTime' > gameTime /\ soundsCount' > soundsCount
                \/ gameTime' = 0 /\ soundsCount' = 0]_vars

\* the frame just run reported the second onset of the run, after a hover
C17_Witness ==
    /\ status = "playing"
    /\ audioStatus.onset
    /\ soundsCount = 2
    /\ gameState.soundsDetected = 2
    /\ player.hoverTime = DT

\* the frame's timestamp is more than one beat interval after the spawn timer
BeatPassed == (time' - lastObstacleTime) * level.bpm > BEAT_MS

\* the obstacles a frame has just created, found at their place after scrolling
Created ==
    {i \in 1..Len(obstacles') :
        obstacles'[i].x = CANVAS_WIDTH - scrollSpeed(level, proSpeed)}

\* C18: a frame that polls attempts a spawn exactly when its timestamp is more
\* than one beat interval (60000 / bpm ms) after the spawn timer, which startGame
\* sets to 0; an attempt sets the timer to the timestamp whether or not it creates
\* an obstacle, a frame without attempt leaves the timer and creates nothing, and
\* no frame creates more than one obstacle; so two consecutive attempts within a
\* run are more than one beat interval apart.
C18_SpawnBeat ==
    /\ [][PollStep =>
            /\ BeatPassed => lastObstacleTime' = time'
            /\ ~BeatPassed => lastObstacleTime' = lastObstacleTime /\ Created = {}
            /\ Cardinality(Created) <= 1
            /\ Len(obstacles') <= Len(obstacles) + 1]_vars
    /\ [][(gameTime' > gameTime /\ lastObstacleTime' # lastObstacleTime
                                /\ lastObstacleTime # 0)
             => (lastObstacleTime' - lastObstacleTime) * level.bpm > BEAT_MS]_vars

\* the frame just run made the second spawn attempt of the run and created no
\* obstacle, the obstacle of the first attempt being on its way
C18_Witness ==
    /\ status = "playing"
    /\ gameTime > DT
    /\ lastObstacleTime = time
    /\ Len(obstacles) = 1
    /\ obstacles[1].x < CANVAS_WIDTH - scrollSpeed(level, proSpeed)

\* C19: at most one frame request is pending at any time, and none while the
\* status is not playing; a step taken while the status is not playing leaves the
\* player, the obstacles, the timers, the counter and the detector's readings as
\* they are, unless it is an accepted startGame.
C19_OneFrameRequest ==
    /\ [](rafPending <= 1)
    /\ [](status # "playing" => rafPending = 0)
    /\ [][status # "playing"
             => \/ UNCHANGED <<player, obstacles, lastObstacleTime, gameTime,
                               soundsCount, volume, audioStatus, lastEdge, time>>
                \/ status' = "playing" /\ micEnabled /\ gameTime' = 0]_vars

\* a run of the pro level goes on with one frame pending, after frames and a
\* change of the speed slider
C19_Witness ==
    /\ status = "playing"
    /\ gameTime > 0
    /\ proSpeed # DEFAULT_PRO_SPEED
    /\ rafPending = 1

\* C20: after each frame of a run the timeLeft of gameState is
\* max(0, duration - elapsed), elapsed being the game time after the frame; it
\* starts at duration and never increases during the run.
C20_TimeLeft ==
    /\ [][(status # "playing" /\ status' = "playing")
             => gameState'.timeLeft = gameState'.currentLevel.duration]_vars
    /\ [][(status = "playing" /\ gameTime' > gameTime)
             => /\ gameState'.timeLeft = newTimeLeft(level, gameTime')
                /\ gameState'.timeLeft <= gameState.timeLeft]_vars

\* frames of the run have passed and timeLeft is still the level's duration
C20_Witness ==
    /\ status = "playing"
    /\ gameTime > 0
    /\ gameState.timeLeft = level.duration
    /\ newTimeLeft(level, gameTime) < level.duration

\* C21: the hover timer of the player never exceeds the hover budget of 2.0 s.
C21_HoverCap ==
    "hoverTime" \in DOMAIN player => player.hoverTime <= HOVER_BUDGET

\* the 120th hover frame of one sound has run: the timer was below the budget
\* before it and is above it now
C21_Witness ==
    /\ status = "playing"
    /\ player.isJumping
    /\ audioStatus.isSounding
    /\ player.hoverTime = 120 * DT
    /\ player.hoverTime - DT < HOVER_BUDGET
    /\ player.hoverTime > HOVER_BUDGET

\* C22: a player above the ground is jumping, in every state.  A frame lifts the
\* player off the ground only if its poll reports an onset, and a frame clears
\* isJumping only by a ground clamp, which leaves the player on the ground with
\* vy = 0; outside frames isJumping is cleared only by the reset of startGame.
C22_AirborneJumping ==
    /\ [](Less(player.y, Ground) => player.isJumping)
    /\ [][(PollStep /\ player.y = Ground /\ Less(player'.y, Ground))
             => audioStatus'.onset]_vars
    /\ [][(player.isJumping /\ ~player'.isJumping)
             => \/ /\ gameTime' > gameTime
                   /\ player'.y = Ground
                   /\ player'.vy = Zero
                   /\ PollStep => Less(Ground, Unclamped.y)
                \/ gameTime' = 0 /\ player' = resetPlayer]_vars

\* the player is held at the ceiling by a sound: the ceiling clamp has zeroed vy
\* and the player is still jumping
C22_Witness ==
    /\ status = "playing"
    /\ player.y = Zero
    /\ player.vy = Zero
    /\ player.isJumping
    /\ audioStatus.isSounding

\* C23: while a run is playing fewer than ceil(duration / 0.01667) frames of it
\* have run, no run ever counts more frames than that, and, frames being
\* delivered, a run that is playing eventually leaves playing.
C23_RunTerminates ==
    /\ [](status = "playing" => gameTime < FramesOf(level) * DT)
    /\ [](gameTime <= FramesOf(level) * DT)
    /\ (status = "playing") ~> (status # "playing")

\* a run has ended by its time being up, after exactly ceil(duration / 0.01667)
\* frames and without any obstacle
C23_Witness ==
    /\ status \in {"win", "gameover"}
    /\ gameTime = FramesOf(level) * DT
    /\ gameTime >= level.duration
    /\ obstacles = <<>>

====
